---- MODULE Spec2Model ----
(***************************************************************************)
(* Model of the ink! ERC-20 contract in src/lib.rs: the storage struct     *)
(* Erc20, its constructor and its messages.  Every message is one atomic   *)
(* step (the host serialises calls).  A message that returns Err keeps the *)
(* storage writes it has made (no rollback by the host is assumed); a      *)
(* message that panics on arithmetic overflow traps and the call is        *)
(* discarded.                                                              *)
(***************************************************************************)
EXTENDS Integers, Sequences, FiniteSets, TLC

\* ---------------------------------------------------------------- bounds
\* Largest value of the Balance type (u128::MAX in the program, scaled down).
MaxBalance == 2
\* Number of messages sent to the contract after construction.
MaxCalls == 2
\* Number of messages in the runs that drive a balance up to the overflow.
MaxOverflowCalls == 4

\* The accounts of the test environment (test::default_accounts).
Accounts == {"alice", "bob", "charlie"}
\* The caller of the constructor: the default caller of the environment.
Deployer == "alice"
\* Type Balance: an unsigned integer of fixed width.
Balance == 0..MaxBalance
\* The amounts passed to the constructor and the messages: nothing, one
\* unit, and the largest Balance.
Amounts == {0, 1, MaxBalance}
\* The accounts and amounts of the runs that drive a balance up to the overflow.
OverflowAccounts == {"alice", "bob"}
OverflowAmounts == {1, MaxBalance}

VARIABLES
    total_supply,     \* Erc20.total_supply
    balances,         \* Erc20.balances : Mapping<AccountId, Balance>
    allowances,       \* Erc20.allowances : Mapping<(AccountId, AccountId), Balance>
    overflow_checks,  \* build profile: TRUE = arithmetic overflow panics, FALSE = it wraps
    emitted,          \* events emitted by the latest call, in order
    last,             \* the latest call: message, caller, arguments, result
    calls,            \* number of messages executed since construction
    constructed,      \* history: the constructor's caller and argument
    credited,         \* history: the constructor plus every recipient of a successful transfer
    approved,         \* history: the pairs <<owner, spender>> for which owner called approve
    grants            \* history: per approved pair, the value of the owner's latest approve
                      \* and what the spender's successful transfer_from calls have
                      \* taken out of the owner's balance since

vars == <<total_supply, balances, allowances, overflow_checks, emitted, last,
          calls, constructed, credited, approved, grants>>

\* ------------------------------------------------------- storage helpers
\* Option<T>
None == <<>>
Some(a) == <<a>>

\* Option::unwrap_or_default() on Option<Balance>.
unwrap_or_default(o) == IF o = None THEN 0 ELSE o[1]

\* Mapping::new(): the empty mapping.
EmptyMapping == [k \in {} |-> 0]

\* Mapping::get(key): Some(value) when the key has an entry.
get(m, k) == IF k \in DOMAIN m THEN Some(m[k]) ELSE None

\* Mapping::insert(key, value): overwrite the entry of key.
insert(m, k, v) == [x \in (DOMAIN m) \cup {k} |-> IF x = k THEN v ELSE m[x]]

\* Event Transfer { from: Option<AccountId>, to, value }
Transfer(from, to, value) ==
    [type |-> "Transfer", from |-> from, to |-> to, value |-> value]

\* Event Approve { from, to, value }
Approve(from, to, value) ==
    [type |-> "Approve", from |-> from, to |-> to, value |-> value]

\* The storage struct as one value, before and after a step.
Self == [total_supply |-> total_supply, balances |-> balances, allowances |-> allowances]
SelfNext == [total_supply |-> total_supply', balances |-> balances', allowances |-> allowances']

\* ------------------------------------------------------------ the contract
\* Variant of new: total_supply is left to Default::default().
new_default_supply(sender, supply) ==
    [self   |-> [total_supply |-> 0,
                 balances     |-> insert(EmptyMapping, sender, supply),
                 allowances   |-> EmptyMapping],
     events |-> <<Transfer(None, sender, supply)>>]

\* Variant of new: the initial event names the sender as its source.
new_event_from_sender(sender, supply) ==
    [self   |-> [total_supply |-> supply,
                 balances     |-> insert(EmptyMapping, sender, supply),
                 allowances   |-> EmptyMapping],
     events |-> <<Transfer(Some(sender), sender, supply)>>]

\* Erc20::new(total_supply), called by sender.
new(sender, supply) ==
    [self   |-> [total_supply |-> supply,
                 balances     |-> insert(EmptyMapping, sender, supply),
                 allowances   |-> EmptyMapping],
     events |-> <<Transfer(None, sender, supply)>>]

\* Erc20::balance_of(who): the stored balance, or the default 0.
balance_of(self, who) == unwrap_or_default(get(self.balances, who))

\* Variant of allowance: the key is built as (to, from).
allowance_reversed_key(self, from, to) ==
    unwrap_or_default(get(self.allowances, <<to, from>>))

\* Erc20::allowance(from, to): the stored allowance, or the default 0.
allowance(self, from, to) == unwrap_or_default(get(self.allowances, <<from, to>>))

\* Variant of transfer_from_to: the sufficiency check reads balance_to.
transfer_from_to_checks_recipient(self, from, to, value, checks) ==
    LET balance_from == balance_of(self, from)
        balance_to   == balance_of(self, to)
    IN  IF value > balance_to
        THEN [self |-> self, result |-> "BalanceTooLow", events |-> <<>>]
        ELSE IF checks /\ balance_to + value > MaxBalance
        THEN [self |-> self, result |-> "Panic", events |-> <<>>]
        ELSE LET b1 == insert(self.balances, from, balance_from - value)
                 b2 == insert(b1, to, (balance_to + value) % (MaxBalance + 1))
             IN  [self   |-> [self EXCEPT !.balances = b2],
                  result |-> "Ok",
                  events |-> <<Transfer(Some(from), to, value)>>]

\* Variant of transfer_from_to: the event is emitted before the check.
transfer_from_to_emits_first(self, from, to, value, checks) ==
    LET balance_from == balance_of(self, from)
        balance_to   == balance_of(self, to)
    IN  IF value > balance_from
        THEN [self |-> self, result |-> "BalanceTooLow",
              events |-> <<Transfer(Some(from), to, value)>>]
        ELSE IF checks /\ balance_to + value > MaxBalance
        THEN [self |-> self, result |-> "Panic", events |-> <<>>]
        ELSE LET b1 == insert(self.balances, from, balance_from - value)
                 b2 == insert(b1, to, (balance_to + value) % (MaxBalance + 1))
             IN  [self   |-> [self EXCEPT !.balances = b2],
                  result |-> "Ok",
                  events |-> <<Transfer(Some(from), to, value)>>]

\* Variant of transfer_from_to: the sufficiency check is missing.
transfer_from_to_no_check(self, from, to, value, checks) ==
    LET balance_from == balance_of(self, from)
        balance_to   == balance_of(self, to)
    IN  IF checks /\ balance_to + value > MaxBalance
        THEN [self |-> self, result |-> "Panic", events |-> <<>>]
        ELSE LET b1 == insert(self.balances, from, balance_from - value)
                 b2 == insert(b1, to, (balance_to + value) % (MaxBalance + 1))
             IN  [self   |-> [self EXCEPT !.balances = b2],
                  result |-> "Ok",
                  events |-> <<Transfer(Some(from), to, value)>>]

\* Erc20::transfer_from_to(from, to, value).  Both balances are read before
\* either is written; the write of `to` comes last.  balance_to + value is
\* Balance arithmetic: it panics when the build checks overflow (the call
\* traps and its writes are discarded) and wraps otherwise.
transfer_from_to(self, from, to, value, checks) ==
    LET balance_from == balance_of(self, from)
        balance_to   == balance_of(self, to)
    IN  IF value > balance_from
        THEN [self |-> self, result |-> "BalanceTooLow", events |-> <<>>]
        ELSE IF checks /\ balance_to + value > MaxBalance
        THEN [self |-> self, result |-> "Panic", events |-> <<>>]
        ELSE LET b1 == insert(self.balances, from, balance_from - value)
                 b2 == insert(b1, to, (balance_to + value) % (MaxBalance + 1))
             IN  [self   |-> [self EXCEPT !.balances = b2],
                  result |-> "Ok",
                  events |-> <<Transfer(Some(from), to, value)>>]

\* Erc20::transfer(to, value), called by sender.
transfer(self, sender, to, value, checks) ==
    transfer_from_to(self, sender, to, value, checks)

\* Variant of transfer_from: the allowance is read under the key
\* (sender, from).
transfer_from_reversed_key(self, sender, from, to, value, checks) ==
    LET allowance_ == unwrap_or_default(get(self.allowances, <<sender, from>>))
    IN  IF allowance_ < value
        THEN [self |-> self, result |-> "AllowanceTooLow", events |-> <<>>]
        ELSE LET s1 == [self EXCEPT !.allowances =
                            insert(@, <<from, sender>>, allowance_ - value)]
                 r  == transfer_from_to(s1, from, to, value, checks)
             IN  IF r.result = "Panic" THEN [r EXCEPT !.self = self] ELSE r

\* Variant of transfer_from: the allowance is written only after
\* transfer_from_to has succeeded.
transfer_from_balance_first(self, sender, from, to, value, checks) ==
    LET allowance_ == unwrap_or_default(get(self.allowances, <<from, sender>>))
    IN  IF allowance_ < value
        THEN [self |-> self, result |-> "AllowanceTooLow", events |-> <<>>]
        ELSE LET r == transfer_from_to(self, from, to, value, checks)
             IN  IF r.result # "Ok" THEN r
                 ELSE [r EXCEPT !.self.allowances =
                           insert(@, <<from, sender>>, allowance_ - value)]

\* Variant of transfer_from: the lowered allowance is written under the key
\* (sender, from).
transfer_from_writes_reversed_key(self, sender, from, to, value, checks) ==
    LET allowance_ == unwrap_or_default(get(self.allowances, <<from, sender>>))
    IN  IF allowance_ < value
        THEN [self |-> self, result |-> "AllowanceTooLow", events |-> <<>>]
        ELSE LET s1 == [self EXCEPT !.allowances =
                            insert(@, <<sender, from>>, allowance_ - value)]
                 r  == transfer_from_to(s1, from, to, value, checks)
             IN  IF r.result = "Panic" THEN [r EXCEPT !.self = self] ELSE r

\* Variant of transfer_from: the balance of from is checked before the
\* allowance.
transfer_from_balance_checked_first(self, sender, from, to, value, checks) ==
    LET allowance_ == unwrap_or_default(get(self.allowances, <<from, sender>>))
    IN  IF value > balance_of(self, from)
        THEN [self |-> self, result |-> "BalanceTooLow", events |-> <<>>]
        ELSE IF allowance_ < value
        THEN [self |-> self, result |-> "AllowanceTooLow", events |-> <<>>]
        ELSE LET s1 == [self EXCEPT !.allowances =
                            insert(@, <<from, sender>>, allowance_ - value)]
                 r  == transfer_from_to(s1, from, to, value, checks)
             IN  IF r.result = "Panic" THEN [r EXCEPT !.self = self] ELSE r

\* Variant of transfer_from: the allowance must exceed value.
transfer_from_strict_allowance(self, sender, from, to, value, checks) ==
    LET allowance_ == unwrap_or_default(get(self.allowances, <<from, sender>>))
    IN  IF allowance_ <= value
        THEN [self |-> self, result |-> "AllowanceTooLow", events |-> <<>>]
        ELSE LET s1 == [self EXCEPT !.allowances =
                            insert(@, <<from, sender>>, allowance_ - value)]
                 r  == transfer_from_to(s1, from, to, value, checks)
             IN  IF r.result = "Panic" THEN [r EXCEPT !.self = self] ELSE r

\* Erc20::transfer_from(from, to, value), called by sender.  The allowance
\* is written before transfer_from_to runs; `?` returns its Err as it is.
transfer_from(self, sender, from, to, value, checks) ==
    LET allowance_ == unwrap_or_default(get(self.allowances, <<from, sender>>))
    IN  IF allowance_ < value
        THEN [self |-> self, result |-> "AllowanceTooLow", events |-> <<>>]
        ELSE LET s1 == [self EXCEPT !.allowances =
                            insert(@, <<from, sender>>, allowance_ - value)]
                 r  == transfer_from_to(s1, from, to, value, checks)
             IN  IF r.result = "Panic" THEN [r EXCEPT !.self = self] ELSE r

\* Variant of approve: the value is added to the stored allowance.
approve_additive(self, sender, to, value) ==
    [self   |-> [self EXCEPT !.allowances =
                     insert(@, <<sender, to>>,
                            unwrap_or_default(get(@, <<sender, to>>)) + value)],
     result |-> "Ok",
     events |-> <<Approve(sender, to, value)>>]

\* Erc20::approve(to, value), called by sender.
approve(self, sender, to, value) ==
    [self   |-> [self EXCEPT !.allowances = insert(@, <<sender, to>>, value)],
     result |-> "Ok",
     events |-> <<Approve(sender, to, value)>>]

\* ------------------------------------------------------------------ steps
\* The state after new(supply) called by the deployer, under either build
\* profile.
Constructed(supplies) ==
    \E supply \in supplies, checks \in BOOLEAN :
        LET c == new(Deployer, supply)
        IN  /\ total_supply = c.self.total_supply
            /\ balances = c.self.balances
            /\ allowances = c.self.allowances
            /\ overflow_checks = checks
            /\ emitted = c.events
            /\ last = [op |-> "new", caller |-> Deployer, from |-> Deployer,
                       to |-> Deployer, value |-> supply, result |-> "Ok",
                       prior |-> 0]
            /\ calls = 0
            /\ constructed = [caller |-> Deployer, total_supply |-> supply]
            /\ credited = {Deployer}
            /\ approved = {}
            /\ grants = EmptyMapping

\* The storage and the event sink after a message returned r.
Commit(r) ==
    /\ total_supply' = r.self.total_supply
    /\ balances' = r.self.balances
    /\ allowances' = r.self.allowances
    /\ emitted' = r.events
    /\ calls' = calls + 1
    /\ UNCHANGED <<overflow_checks, constructed>>

\* What a call took out of the balance of who: the drop of balance_of(who)
\* from the storage before the call to the storage after it.
Taken(before, after, who) ==
    IF balance_of(after, who) < balance_of(before, who)
    THEN balance_of(before, who) - balance_of(after, who)
    ELSE 0

\* Message transfer(to, value) from caller.
TransferCall(accounts, amounts, limit) ==
    /\ calls < limit
    /\ \E caller \in accounts, to \in accounts, value \in amounts :
        \E r \in {transfer(Self, caller, to, value, overflow_checks)} :
            /\ Commit(r)
            /\ last' = [op |-> "transfer", caller |-> caller, from |-> caller,
                        to |-> to, value |-> value, result |-> r.result,
                        prior |-> 0]
            /\ credited' = IF r.result = "Ok" THEN credited \cup {to} ELSE credited
            /\ UNCHANGED <<approved, grants>>

\* Message transfer_from(from, to, value) from caller.
TransferFromCall(accounts, amounts, limit) ==
    /\ calls < limit
    /\ \E caller \in accounts, from \in accounts, to \in accounts, value \in amounts :
        \E r \in {transfer_from(Self, caller, from, to, value, overflow_checks)} :
            /\ Commit(r)
            /\ last' = [op |-> "transfer_from", caller |-> caller, from |-> from,
                        to |-> to, value |-> value, result |-> r.result,
                        prior |-> 0]
            /\ credited' = IF r.result = "Ok" THEN credited \cup {to} ELSE credited
            /\ grants' = IF r.result = "Ok" /\ <<from, caller>> \in DOMAIN grants
                          THEN [grants EXCEPT ![<<from, caller>>].spent =
                                    @ + Taken(Self, r.self, from)]
                          ELSE grants
            /\ UNCHANGED approved

\* Message approve(to, value) from caller.  last.prior keeps the allowance
\* the call replaced.
ApproveCall(accounts, amounts, limit) ==
    /\ calls < limit
    /\ \E caller \in accounts, to \in accounts, value \in amounts :
        \E r \in {approve(Self, caller, to, value)} :
            /\ Commit(r)
            /\ last' = [op |-> "approve", caller |-> caller, from |-> caller,
                        to |-> to, value |-> value, result |-> r.result,
                        prior |-> allowance(Self, caller, to)]
            /\ approved' = approved \cup {<<caller, to>>}
            /\ grants' = insert(grants, <<caller, to>>, [granted |-> value, spent |-> 0])
            /\ UNCHANGED credited

\* Any account sends any message with any of the amounts.
Init == Constructed(Amounts)

Next ==
    \/ TransferCall(Accounts, Amounts, MaxCalls)
    \/ TransferFromCall(Accounts, Amounts, MaxCalls)
    \/ ApproveCall(Accounts, Amounts, MaxCalls)

Spec == Init /\ [][Next]_vars

\* Longer runs among two accounts, with the whole supply or one unit per
\* call: the runs in which balances grow up to the Balance width.
InitOverflow == Constructed({MaxBalance})

NextOverflow ==
    \/ TransferCall(OverflowAccounts, OverflowAmounts, MaxOverflowCalls)
    \/ TransferFromCall(OverflowAccounts, OverflowAmounts, MaxOverflowCalls)
    \/ ApproveCall(OverflowAccounts, OverflowAmounts, MaxOverflowCalls)

SpecOverflow == InitOverflow /\ [][NextOverflow]_vars

\* ------------------------------------------------------------ properties
\* The sum of balance_of(a) over the accounts of S.
RECURSIVE SumBalances(_, _)
SumBalances(self, S) ==
    IF S = {} THEN 0
    ELSE LET a == CHOOSE x \in S : TRUE
         IN  balance_of(self, a) + SumBalances(self, S \ {a})

\* No query of the contract changes value over the step.  (A mapping that
\* is left as it is answers every query as before; otherwise every key is
\* queried.)
BalancesUnchanged ==
    \/ balances' = balances
    \/ \A a \in Accounts : balance_of(SelfNext, a) = balance_of(Self, a)
AllowancesUnchanged ==
    \/ allowances' = allowances
    \/ \A o \in Accounts, p \in Accounts :
           allowance(SelfNext, o, p) = allowance(Self, o, p)
\* No allowance query but that of the pair <<owner, spender>> changes value
\* over the step.
AllowancesUnchangedBut(owner, spender) ==
    \/ allowances' = allowances
    \/ \A o \in Accounts, p \in Accounts :
           <<o, p>> # <<owner, spender>>
           => allowance(SelfNext, o, p) = allowance(Self, o, p)

\* C1: in every reachable state the balances of all accounts add up to
\* total_supply().
C1_SupplyConservation == SumBalances(Self, Accounts) = total_supply

\* C2: a transfer of more than the caller's balance returns
\* Err(BalanceTooLow) and leaves every balance, every allowance and
\* total_supply as they were.
C2_TransferBalanceTooLow ==
    [][ (last'.op = "transfer" /\ last'.value > balance_of(Self, last'.caller))
        => /\ last'.result = "BalanceTooLow"
           /\ BalancesUnchanged
           /\ AllowancesUnchanged
           /\ total_supply' = total_supply ]_vars

C2_Witness ==
    /\ last.op = "transfer"
    /\ last.result = "BalanceTooLow"
    /\ last.caller # last.to
    /\ balance_of(Self, last.caller) > 0
    /\ last.value > balance_of(Self, last.caller)

\* C3: a transfer_from of more than allowance(from, caller) returns
\* Err(AllowanceTooLow) and changes no allowance and no balance, whatever
\* the balance of from is.
C3_TransferFromAllowanceTooLow ==
    [][ (last'.op = "transfer_from"
         /\ allowance(Self, last'.from, last'.caller) < last'.value)
        => /\ last'.result = "AllowanceTooLow"
           /\ AllowancesUnchanged
           /\ BalancesUnchanged ]_vars

C3_Witness ==
    /\ last.op = "transfer_from"
    /\ last.result = "AllowanceTooLow"
    /\ allowance(Self, last.from, last.caller) > 0
    /\ balance_of(Self, last.from) >= last.value

\* C4: a transfer to an account other than the caller, of at most the
\* caller's balance, returns Ok, takes exactly value from the caller, adds
\* exactly value to the recipient and changes no other balance.
C4_TransferMovesValue ==
    [][ (last'.op = "transfer" /\ last'.to # last'.caller
         /\ last'.value <= balance_of(Self, last'.caller))
        => /\ last'.result = "Ok"
           /\ balance_of(SelfNext, last'.caller) = balance_of(Self, last'.caller) - last'.value
           /\ balance_of(SelfNext, last'.to) = balance_of(Self, last'.to) + last'.value
           /\ \A a \in Accounts \ {last'.caller, last'.to} :
                  balance_of(SelfNext, a) = balance_of(Self, a) ]_vars

\* C5: a transfer_from with from # to, within the allowance and within the
\* balance of from, returns Ok, lowers allowance(from, caller) by value,
\* moves value from from to to, and changes no other balance.
C5_TransferFromMovesValue ==
    [][ (last'.op = "transfer_from" /\ last'.from # last'.to
         /\ allowance(Self, last'.from, last'.caller) >= last'.value
         /\ balance_of(Self, last'.from) >= last'.value)
        => /\ last'.result = "Ok"
           /\ allowance(SelfNext, last'.from, last'.caller)
                  = allowance(Self, last'.from, last'.caller) - last'.value
           /\ balance_of(SelfNext, last'.from) = balance_of(Self, last'.from) - last'.value
           /\ balance_of(SelfNext, last'.to) = balance_of(Self, last'.to) + last'.value
           /\ \A a \in Accounts \ {last'.from, last'.to} :
                  balance_of(SelfNext, a) = balance_of(Self, a) ]_vars

\* C6: approve returns Ok and leaves allowance(caller, spender) equal to the
\* value of the call, whatever allowance it replaces.
C6_ApproveOverwrites ==
    [][ last'.op = "approve"
        => /\ last'.result = "Ok"
           /\ last'.prior = allowance(Self, last'.caller, last'.to)
           /\ allowance(SelfNext, last'.caller, last'.to) = last'.value ]_vars

C6_Witness ==
    /\ last.op = "approve"
    /\ last.prior > 0
    /\ last.value > 0
    /\ <<last.caller, last.to>> \in approved
    /\ allowance(Self, last.caller, last.to) = last.value
    /\ allowance(Self, last.caller, last.to) # last.prior + last.value

\* C7: total_supply() is the constructor's argument in every reachable
\* state.
C7_TotalSupplyFixed == total_supply = constructed.total_supply

C7_Witness ==
    /\ calls >= 2
    /\ last.op \in {"transfer", "transfer_from"}
    /\ last.result = "Ok"
    /\ last.value > 0
    /\ total_supply > 0

\* C8: right after new(s) by C the supply is s, C holds s, every other
\* balance and every allowance is 0, and the one event emitted is
\* Transfer{from: None, to: C, value: s}.
C8_Construction ==
    calls = 0 =>
        /\ total_supply = constructed.total_supply
        /\ balance_of(Self, constructed.caller) = constructed.total_supply
        /\ \A a \in Accounts \ {constructed.caller} : balance_of(Self, a) = 0
        /\ \A o \in Accounts, p \in Accounts : allowance(Self, o, p) = 0
        /\ Len(emitted) = 1
        /\ emitted[1].type = "Transfer"
        /\ emitted[1].from = None
        /\ emitted[1].to = constructed.caller
        /\ emitted[1].value = constructed.total_supply

C8_Witness == calls = 0 /\ last.op = "new" /\ constructed.total_supply > 0

\* C9: an account that is not the constructor and never received a
\* successful transfer has balance 0, and a pair (o, p) for which o never
\* called approve(p, _) has allowance 0.
C9_UntouchedIsZero ==
    /\ \A a \in Accounts \ credited : balance_of(Self, a) = 0
    /\ \A o \in Accounts, p \in Accounts :
           <<o, p>> \notin approved => allowance(Self, o, p) = 0

C9_Witness ==
    /\ calls > 0
    /\ credited # Accounts
    /\ \E a \in credited : a # constructed.caller /\ balance_of(Self, a) > 0
    /\ \E pr \in approved : allowance(Self, pr[1], pr[2]) > 0
    /\ (Accounts \X Accounts) \ approved # {}

\* C10: a transfer_from within the allowance but above the balance of from
\* returns Err(BalanceTooLow), changes no balance, and leaves
\* allowance(from, caller) lowered by value.
C10_PartialMutation ==
    [][ (last'.op = "transfer_from"
         /\ allowance(Self, last'.from, last'.caller) >= last'.value
         /\ balance_of(Self, last'.from) < last'.value)
        => /\ last'.result = "BalanceTooLow"
           /\ BalancesUnchanged
           /\ allowance(SelfNext, last'.from, last'.caller)
                  = allowance(Self, last'.from, last'.caller) - last'.value ]_vars

C10_Witness ==
    /\ last.op = "transfer_from"
    /\ last.result = "BalanceTooLow"
    /\ last.value > 0
    /\ <<last.from, last.caller>> \in approved

\* C11: a transfer to the caller itself within its balance, and a
\* successful transfer_from with from = to, returns Ok and leaves every
\* balance as it was.
C11_SelfTransferMovesNothing ==
    [][ /\ (last'.op = "transfer" /\ last'.to = last'.caller
            /\ last'.value <= balance_of(Self, last'.caller))
           => (last'.result = "Ok" /\ BalancesUnchanged)
        /\ (last'.op = "transfer_from" /\ last'.from = last'.to
            /\ last'.result = "Ok")
           => BalancesUnchanged ]_vars

\* C12: no account ever holds more than total_supply, and no transfer that
\* passed its checks overflows the Balance width.
C12_BalanceWithinSupply ==
    /\ \A a \in Accounts : balance_of(Self, a) <= total_supply
    /\ last.result # "Panic"

\* C13: a transfer or transfer_from that returns Ok emits exactly one event,
\* Transfer{from: Some(f), to, value} with f the source of the move; a call
\* that returns Err emits nothing; approve emits exactly one event,
\* Approve{from: caller, to: spender, value}; and only the constructor emits
\* a Transfer with from = None.
C13_EventsFollowSuccess ==
    /\ (last.op \in {"transfer", "transfer_from"} /\ last.result = "Ok")
       => /\ Len(emitted) = 1
          /\ emitted[1].type = "Transfer"
          /\ emitted[1].from = Some(last.from)
          /\ emitted[1].to = last.to
          /\ emitted[1].value = last.value
    /\ last.result \in {"BalanceTooLow", "AllowanceTooLow"} => emitted = <<>>
    /\ last.op = "approve"
       => /\ Len(emitted) = 1
          /\ emitted[1].type = "Approve"
          /\ emitted[1].from = last.caller
          /\ emitted[1].to = last.to
          /\ emitted[1].value = last.value
    /\ \A i \in 1..Len(emitted) :
           (emitted[i].type = "Transfer" /\ emitted[i].from = None) => last.op = "new"

C13_Witness ==
    /\ last.op = "transfer_from"
    /\ last.result = "Ok"
    /\ last.caller # last.from
    /\ last.from # last.to
    /\ last.value > 0
    /\ Len(emitted) = 1

\* C14: in one call the balance of an account a goes down only if the call
\* is transfer by caller a, or transfer_from(a, _, value) by a caller whose
\* allowance from a was at least value before the call.
C14_Authorization ==
    [][ \A a \in Accounts :
            balance_of(SelfNext, a) < balance_of(Self, a)
            => \/ (last'.op = "transfer" /\ last'.caller = a)
               \/ (last'.op = "transfer_from" /\ last'.from = a
                   /\ allowance(Self, a, last'.caller) >= last'.value) ]_vars

\* C15: approve returns Ok for every value, whatever the caller holds, and
\* no transfer_from returns Ok with a value above the balance of from,
\* whatever the allowance.
C15_AllowanceAboveBalanceInert ==
    [][ /\ last'.op = "approve"
           => (last'.result = "Ok"
               /\ allowance(SelfNext, last'.caller, last'.to) = last'.value)
        /\ (last'.op = "transfer_from" /\ last'.result = "Ok")
           => last'.value <= balance_of(Self, last'.from) ]_vars

C15_Witness ==
    /\ last.op = "transfer_from"
    /\ last.result = "BalanceTooLow"
    /\ balance_of(Self, last.from) > 0
    /\ last.value > balance_of(Self, last.from)
    /\ allowance(Self, last.from, last.caller) + last.value > balance_of(Self, last.from)
    /\ last.caller # last.from

\* C16: approve by c for s changes no allowance but allowance(c, s) and no
\* balance; transfer changes no allowance; transfer_from by c on f changes
\* no allowance but allowance(f, c).
C16_AllowanceFrame ==
    [][ /\ last'.op = "approve"
           => /\ BalancesUnchanged
              /\ AllowancesUnchangedBut(last'.caller, last'.to)
        /\ last'.op = "transfer" => AllowancesUnchanged
        /\ last'.op = "transfer_from"
           => AllowancesUnchangedBut(last'.from, last'.caller) ]_vars

C16_Witness ==
    /\ last.op = "approve"
    /\ last.value > 0
    /\ \E o \in Accounts, p \in Accounts :
           <<o, p>> # <<last.caller, last.to>> /\ allowance(Self, o, p) > 0
    /\ balance_of(Self, last.caller) > 0

\* C18: a transfer_from with both the allowance and the balance of from
\* below value returns Err(AllowanceTooLow), and a transfer_from returns
\* Err(BalanceTooLow) only when the allowance covered value.
C18_ErrorPrecedence ==
    [][ /\ (last'.op = "transfer_from"
            /\ allowance(Self, last'.from, last'.caller) < last'.value
            /\ balance_of(Self, last'.from) < last'.value)
           => last'.result = "AllowanceTooLow"
        /\ (last'.op = "transfer_from" /\ last'.result = "BalanceTooLow")
           => allowance(Self, last'.from, last'.caller) >= last'.value ]_vars

C18_Witness ==
    /\ last.op = "transfer_from"
    /\ last.result = "AllowanceTooLow"
    /\ allowance(Self, last.from, last.caller) > 0
    /\ allowance(Self, last.from, last.caller) < last.value
    /\ balance_of(Self, last.from) < last.value

\* C19: transfer(to, 0) and transfer_from(from, to, 0) return Ok for every
\* caller, leave every balance and allowance as it was, and emit one
\* Transfer of value 0 whose source is the caller, or from.
C19_ZeroValueCalls ==
    [][ (last'.op \in {"transfer", "transfer_from"} /\ last'.value = 0)
        => /\ last'.result = "Ok"
           /\ BalancesUnchanged
           /\ AllowancesUnchanged
           /\ Len(emitted') = 1
           /\ emitted'[1].type = "Transfer"
           /\ emitted'[1].from = Some(last'.from)
           /\ emitted'[1].to = last'.to
           /\ emitted'[1].value = 0 ]_vars

C19_Witness ==
    /\ last.op = "transfer_from"
    /\ last.value = 0
    /\ last.result = "Ok"
    /\ <<last.from, last.caller>> \notin approved
    /\ last.from \notin credited
    /\ balance_of(Self, last.caller) = 0
    /\ last.caller # last.from
    /\ total_supply > 0

\* C17: between an approve(s, X) by o and o's next approve for s, the
\* successful transfer_from(o, _, _) calls of s take at most X out of the
\* balance of o in total, and allowance(o, s) goes up only by an approve of
\* o for s.
C17_SpendingBound ==
    [][ /\ \A pr \in DOMAIN grants' : grants'[pr].spent <= grants'[pr].granted
        /\ \A o \in Accounts, p \in Accounts :
               allowance(SelfNext, o, p) > allowance(Self, o, p)
               => (last'.op = "approve" /\ last'.caller = o /\ last'.to = p) ]_vars
====
